---- MODULE Spec2Model ----
(***************************************************************************)
(* Cover tree of covertree.py: Node (data, children per level, parent) and *)
(* CoverTree (insert, knn, knn_insert, find) over a one-dimensional metric *)
(* distance(a, b) = |a - b| on the integer points 0 .. MaxCoord.           *)
(*                                                                         *)
(* The Node graph is the sequence `tree`: tree[1] is the root, tree[n] the *)
(* n-th Node created. A non-root Node records the parent it was given by   *)
(* addChild and the key `level` of the parent's child list that holds it.  *)
(* addChild appends, so parent.children[level] is the Nodes with that      *)
(* parent and level in creation order. The root has parent 0 and no key;   *)
(* its level field is never read. The lists Qi_p_ds / Q_p_ds that the      *)
(* code carries next to Qi / Q hold distance(p, q.data) for each q, and    *)
(* are read here as Dist(p, q) on demand.                                  *)
(***************************************************************************)
EXTENDS Integers, Sequences, FiniteSets

VARIABLES tree, minlevel, last
vars == <<tree, minlevel, last>>

\* bounds of the model: the points, the Nodes a tree may hold, the k of a
\* query, and the maxlevel handed to the constructor
MaxCoord == 5
MaxNodes == 3
MaxK == 2
maxlevel == 1
\* the constructor's default base
base == 2

Points == 0 .. MaxCoord
Ks == 1 .. MaxK

\* the distance function handed to the constructor
distance(a, b) == IF a >= b THEN a - b ELSE b - a

\* the builtin min of two numbers
Min(a, b) == IF a <= b THEN a ELSE b

\* base ** n for n >= 0
Pow(n) == base ^ n

\* d <= e + base ** i, exact also for i < 0 (base ** i = 1 / base ** -i)
LeqPow(d, e, i) == IF i >= 0 THEN d <= e + Pow(i) ELSE (d - e) * Pow(-i) <= 1

\* Node.__init__ followed by the bookkeeping of addChild
Node(p, par, lvl) == [data |-> p, parent |-> par, level |-> lvl]

\* distance(p, q.data) for the Node q of tree t
Dist(t, p, q) == distance(p, t[q].data)

\* Node.getOnlyChildren: self.children[level], or [] when the key is absent
getOnlyChildren(t, n, i) ==
  SelectSeq([m \in 1 .. Len(t) |-> m],
            LAMBDA m : m > 1 /\ t[m].parent = n /\ t[m].level = i)

RECURSIVE ConcatChildren(_, _, _, _)
ConcatChildren(t, Qi, i, j) ==
  IF j > Len(Qi) THEN <<>>
  ELSE getOnlyChildren(t, Qi[j], i) \o ConcatChildren(t, Qi, i, j + 1)

\* CoverTree.getChildrenDist: Qi followed by the children at level i of
\* every Node of Qi
getChildrenDist(t, Qi, i) == Qi \o ConcatChildren(t, Qi, i, 1)

\* the list comprehensions  [q for q, d in zip(Q, Q_p_ds) if d <= e + base**i]
Prune(t, p, Q, e, i) ==
  SelectSeq(Q, LAMBDA q : LeqPow(Dist(t, p, q), e, i))

RECURSIVE InsertSorted(_, _, _, _)
\* insert Node q after every element whose distance is <= its own (stable)
InsertSorted(t, p, S, q) ==
  IF S = <<>> THEN <<q>>
  ELSE IF Dist(t, p, Head(S)) <= Dist(t, p, q)
       THEN <<Head(S)>> \o InsertSorted(t, p, Tail(S), q)
       ELSE <<q>> \o S

RECURSIVE SortByDist(_, _, _, _)
SortByDist(t, p, Q, j) ==
  IF j = 0 THEN <<>>
  ELSE InsertSorted(t, p, SortByDist(t, p, Q, j - 1), Q[j])

\* heapq.nsmallest(k, zip(Q, Q_p_ds), key): sorted(..., key)[:k], stable
nsmallest(t, p, Q, k) ==
  LET S == SortByDist(t, p, Q, Len(Q))
  IN SubSeq(S, 1, IF k < Len(S) THEN k ELSE Len(S))

\* nsmallest(k, Q_p_ds)[-1]
KthDist(t, p, Q, k) ==
  LET S == nsmallest(t, p, Q, k) IN Dist(t, p, S[Len(S)])

RECURSIVE MinFrom(_, _, _, _)
MinFrom(t, p, Q, j) ==
  IF j = Len(Q) THEN Dist(t, p, Q[j])
  ELSE Min(Dist(t, p, Q[j]), MinFrom(t, p, Q, j + 1))

\* min(Q_p_ds), nsmallest(k, Q_p_ds)[0]
MinDist(t, p, Q) == MinFrom(t, p, Q, 1)

\* CoverTree.args_min
args_min(t, p, Q, k) ==
  LET S == nsmallest(t, p, Q, k) IN [j \in 1 .. Len(S) |-> t[S[j]].data]

\* set of the elements of a sequence
Range(S) == {S[j] : j \in 1 .. Len(S)}

\* the record of the last public call: operation, arguments, how it ended,
\* what it returned, and the levels its descent examined
NoCall ==
  [op |-> "none", p |-> 0, k |-> 1, outcome |-> "none", result |-> <<>>,
   found |-> FALSE, level |-> 0, visited |-> 0, lowest |-> 0, wasEmpty |-> TRUE]

Call(op, p, k, outcome, result, found, level, visited, lowest, wasEmpty) ==
  [op |-> op, p |-> p, k |-> k, outcome |-> outcome, result |-> result,
   found |-> found, level |-> level, visited |-> visited, lowest |-> lowest,
   wasEmpty |-> wasEmpty]

\* the calls are made one after the other from a single thread: none is
\* made while an earlier one has not returned
Returned == last.outcome # "NoReturn"

\* possParents of insert_iter
possParents(t, p, Qi, pi) == Range(Prune(t, p, Qi, 0, pi))

RECURSIVE insert_iter(_, _, _, _)
\* the while loop of insert_iter from level i on with cover set Qi
insert_iter(t, p, Qi, i) ==
  LET Q == getChildrenDist(t, Qi, i)
      d_p_Q == MinDist(t, p, Q)
      rest == insert_iter(t, p, Prune(t, p, Q, 0, i), i - 1)
  IN IF d_p_Q = 0
       THEN [kind |-> "present", pi |-> i, parents |-> {}, visited |-> 1,
             lowest |-> i]
     ELSE IF ~LeqPow(d_p_Q, 0, i)
       THEN [kind |-> "attach", pi |-> i + 1,
             parents |-> possParents(t, p, Qi, i + 1), visited |-> 1,
             lowest |-> i]
     ELSE [rest EXCEPT !.visited = @ + 1]

\* CoverTree.__init__ without a root
Init == tree = <<>> /\ minlevel = maxlevel /\ last = NoCall

\* CoverTree.insert
insert(p) ==
  /\ Returned
  /\ Len(tree) < MaxNodes
  /\ IF tree = <<>>
       THEN /\ tree' = <<Node(p, 0, 0)>>
            /\ minlevel' = minlevel
            /\ last' = Call("insert", p, 1, "root", <<>>, FALSE, 0, 0, 0, TRUE)
     ELSE \E r \in {insert_iter(tree, p, <<1>>, maxlevel)} :
          LET n == r.visited
          IN IF r.kind = "present"
               THEN /\ UNCHANGED <<tree, minlevel>>
                    /\ last' = Call("insert", p, 1, "present", <<>>, FALSE,
                                    r.pi, n, r.lowest, FALSE)
             ELSE IF r.parents = {}
               THEN /\ UNCHANGED <<tree, minlevel>>
                    /\ last' = Call("insert", p, 1, "IndexError", <<>>, FALSE,
                                    r.pi, n, r.lowest, FALSE)
             ELSE \E parent \in r.parents :
                    /\ tree' = Append(tree, Node(p, parent, r.pi))
                    /\ minlevel' = Min(minlevel, r.pi)
                    /\ last' = Call("insert", p, 1, "attached", <<>>, FALSE,
                                    r.pi, n, r.lowest, FALSE)

RECURSIVE knn_iter(_, _, _, _, _, _)
\* the for loop of knn_iter from level i down to ml (self.minlevel), then
\* args_min on the last cover set
knn_iter(t, ml, p, k, Qi, i) ==
  IF i < ml
    THEN [result |-> args_min(t, p, Qi, k), visited |-> 0, lowest |-> i + 1]
  ELSE LET Q == getChildrenDist(t, Qi, i)
           d_p_Q == KthDist(t, p, Q, k)
           rest == knn_iter(t, ml, p, k, Prune(t, p, Q, d_p_Q, i), i - 1)
       IN [rest EXCEPT !.visited = @ + 1]

\* CoverTree.knn; on an absent root self.root.data raises AttributeError
knn(p, k) ==
  /\ Returned
  /\ UNCHANGED <<tree, minlevel>>
  /\ IF tree = <<>>
       THEN last' = Call("knn", p, k, "AttributeError", <<>>, FALSE, 0, 0, 0,
                         TRUE)
     ELSE \E r \in {knn_iter(tree, minlevel, p, k, <<1>>, maxlevel)} :
             last' = Call("knn", p, k, "returned", r.result, FALSE, 0,
                          r.visited, r.lowest, FALSE)

\* knn_insert_iter choosing the parent among all of Qi, without the test
\* d <= base ** pi
knnPossParentsUnfiltered(t, p, Qi, pi) == Range(Qi)

\* the candidates handed to choice() in knn_insert_iter
knnPossParents(t, p, Qi, pi) == Range(Prune(t, p, Qi, 0, pi))

RECURSIVE knn_insert_iter(_, _, _, _, _, _, _, _, _)
\* the while loop of knn_insert_iter at its head, with found_parent, pi and
\* the candidates of the parent as found so far. choice() on no candidate
\* raises IndexError inside the loop. Below self.minlevel no child list
\* exists, so Q = Qi there and pruning keeps the nearest Node: a minimum of
\* 0 with found_parent still False stays so at every later level and the
\* loop condition never becomes false ("NoReturn").
knn_insert_iter(t, ml, p, k, Qi, i, found_parent, pi, parents) ==
  IF found_parent /\ i < ml
    THEN [kind |-> "done", pi |-> pi, parents |-> parents, Qi |-> Qi,
          visited |-> 0, lowest |-> i + 1]
  ELSE LET Q == getChildrenDist(t, Qi, i)
           d_p_Q_h == KthDist(t, p, Q, k)
           d_p_Q_l == MinDist(t, p, Q)
           finds == ~found_parent /\ ~LeqPow(d_p_Q_l, 0, i)
           cands == knnPossParents(t, p, Qi, i + 1)
           rest == knn_insert_iter(t, ml, p, k, Prune(t, p, Q, d_p_Q_h, i),
                                   i - 1, found_parent \/ finds,
                                   IF finds THEN i + 1 ELSE pi,
                                   IF finds THEN cands ELSE parents)
       IN IF finds /\ cands = {}
            THEN [kind |-> "IndexError", pi |-> i + 1, parents |-> {},
                  Qi |-> Qi, visited |-> 1, lowest |-> i]
          ELSE IF ~found_parent /\ ~finds /\ i < ml /\ d_p_Q_l = 0
            THEN [kind |-> "NoReturn", pi |-> pi, parents |-> {}, Qi |-> Qi,
                  visited |-> 1, lowest |-> i]
          ELSE [rest EXCEPT !.visited = @ + 1]

\* CoverTree.knn_insert
knn_insert(p, k) ==
  /\ Returned
  /\ Len(tree) < MaxNodes
  /\ IF tree = <<>>
       THEN /\ UNCHANGED <<tree, minlevel>>
            /\ last' = Call("knn_insert", p, k, "AttributeError", <<>>, FALSE,
                            0, 0, 0, TRUE)
     ELSE \E r \in {knn_insert_iter(tree, minlevel, p, k, <<1>>, maxlevel,
                                     FALSE, 0, {})} :
          LET n == r.visited
          IN IF r.kind # "done"
               THEN /\ UNCHANGED <<tree, minlevel>>
                    /\ last' = Call("knn_insert", p, k, r.kind, <<>>, FALSE,
                                    r.pi, n, r.lowest, FALSE)
             ELSE \E parent \in r.parents :
                    /\ minlevel' = Min(minlevel, r.pi)
                    /\ tree' = Append(tree, Node(p, parent, r.pi))
                    /\ last' = Call("knn_insert", p, k, "returned",
                                    args_min(tree, p, r.Qi, k), FALSE, r.pi,
                                    n, r.lowest, FALSE)

RECURSIVE find_rec_late(_, _, _, _, _)
\* find_rec giving up one level late (i < self.minlevel - 1)
find_rec_late(t, ml, p, Qi, i) ==
  LET Q == getChildrenDist(t, Qi, i)
      Qi_next == Prune(t, p, Q, 0, i)
      rest == find_rec_late(t, ml, p, Qi_next, i - 1)
  IN IF Qi = <<>>
       THEN [outcome |-> "ValueError", found |-> FALSE, level |-> 0,
             visited |-> 1, lowest |-> i]
     ELSE IF i < ml - 1
       THEN [outcome |-> "returned", found |-> FALSE, level |-> 0,
             visited |-> 1, lowest |-> i]
     ELSE IF MinDist(t, p, Qi) = 0
       THEN [outcome |-> "returned", found |-> TRUE, level |-> i,
             visited |-> 1, lowest |-> i]
     ELSE [rest EXCEPT !.visited = @ + 1]

RECURSIVE find_rec(_, _, _, _, _)
\* CoverTree.find_rec; min(Qi_p_ds) is evaluated before the level test and
\* raises ValueError on a cover set pruned to nothing
find_rec(t, ml, p, Qi, i) ==
  LET Q == getChildrenDist(t, Qi, i)
      Qi_next == Prune(t, p, Q, 0, i)
      rest == find_rec(t, ml, p, Qi_next, i - 1)
  IN IF Qi = <<>>
       THEN [outcome |-> "ValueError", found |-> FALSE, level |-> 0,
             visited |-> 1, lowest |-> i]
     ELSE IF i < ml
       THEN [outcome |-> "returned", found |-> FALSE, level |-> 0,
             visited |-> 1, lowest |-> i]
     ELSE IF MinDist(t, p, Qi) = 0
       THEN [outcome |-> "returned", found |-> TRUE, level |-> i,
             visited |-> 1, lowest |-> i]
     ELSE [rest EXCEPT !.visited = @ + 1]

\* CoverTree.find; on an absent root self.root.data raises AttributeError
find(p) ==
  /\ Returned
  /\ UNCHANGED <<tree, minlevel>>
  /\ IF tree = <<>>
       THEN last' = Call("find", p, 1, "AttributeError", <<>>, FALSE, 0, 0, 0,
                         TRUE)
     ELSE \E r \in {find_rec(tree, minlevel, p, <<1>>, maxlevel)} :
             last' = Call("find", p, 1, r.outcome, <<>>, r.found, r.level,
                          r.visited, r.lowest, FALSE)

Next ==
  \/ \E p \in Points : insert(p)
  \/ \E p \in Points, k \in Ks : knn(p, k)
  \/ \E p \in Points, k \in Ks : knn_insert(p, k)
  \/ \E p \in Points : find(p)

Spec == Init /\ [][Next]_vars

\* the trees that insert alone builds, with the read-only queries on them
NextInsert ==
  \/ \E p \in Points : insert(p)
  \/ \E p \in Points, k \in Ks : knn(p, k)
  \/ \E p \in Points : find(p)

SpecInsert == Init /\ [][NextInsert]_vars

----------------------------------------------------------------------------
\* p is the data of some Node of t
PresentIn(t, p) == \E n \in 1 .. Len(t) : t[n].data = p

RECURSIVE Iota(_)
Iota(n) == IF n = 0 THEN <<>> ELSE Append(Iota(n - 1), n)

\* brute-force scan: the distances from p to every Node of t, ascending,
\* cut to the k smallest
BruteDists(t, p, k) ==
  LET S == nsmallest(t, p, Iota(Len(t)), k)
  IN [j \in 1 .. Len(S) |-> Dist(t, p, S[j])]

ResultDists(p, res) == [j \in 1 .. Len(res) |-> distance(p, res[j])]

\* every point of the tree is within base ** maxlevel of the root
AllWithinRange ==
  \A n \in 1 .. Len(tree) : distance(tree[n].data, tree[1].data) <= Pow(maxlevel)

Queries == {"knn", "knn_insert", "find"}

\* C1: on a tree built by insert whose points are all within base**maxlevel
\* of the root, knn(p, k) with k <= size returns k points whose distances to
\* p are the k smallest distances from p to the stored points
C1_KnnIsBruteForce ==
  (last.op = "knn" /\ tree # <<>> /\ last.k <= Len(tree) /\ AllWithinRange)
    => /\ last.outcome = "returned"
       /\ Len(last.result) = last.k
       /\ ResultDists(last.p, last.result) = BruteDists(tree, last.p, last.k)

\* C2: find(p) of an inserted point reports found, and for a non-root p the
\* level it reports is the key under which a Node of p was attached
C2_FindReportsInserted ==
  (last.op = "find" /\ PresentIn(tree, last.p))
    => /\ last.outcome = "returned"
       /\ last.found
       /\ last.p # tree[1].data
            => \E n \in 2 .. Len(tree) :
                 tree[n].data = last.p /\ tree[n].level = last.level

\* C3: insert(p) of a point already in the tree changes neither the Nodes
\* nor minlevel
C3_InsertIdempotent ==
  [][(last'.op = "insert" /\ PresentIn(tree, last'.p))
       => (tree' = tree /\ minlevel' = minlevel)]_vars

\* C4: every non-root Node kept at key i by its parent is within
\* base ** (i + 1) of that parent
C4_Covering ==
  \A n \in 2 .. Len(tree) :
    LeqPow(distance(tree[n].data, tree[tree[n].parent].data), 0,
           tree[n].level + 1)

\* a Node attached by knn_insert below a Node attached earlier
C4_Witness ==
  /\ last.op = "knn_insert" /\ last.outcome = "returned"
  /\ Len(tree) >= 3
  /\ tree[Len(tree)].parent # 1

\* C5: knn_insert(p, k) of a new point returns what knn(p, k) returns on the
\* tree before the call and leaves a tree that insert(p) can leave
C5_KnnInsertIsKnnThenInsert ==
  [][(last'.op = "knn_insert" /\ tree # <<>> /\ ~PresentIn(tree, last'.p))
       => LET r == insert_iter(tree, last'.p, <<1>>, maxlevel)
          IN /\ last'.outcome = "returned"
             /\ last'.result
                  = knn_iter(tree, minlevel, last'.p, last'.k, <<1>>,
                             maxlevel).result
             /\ r.kind = "attach"
             /\ \E parent \in r.parents :
                  tree' = Append(tree, Node(last'.p, parent, r.pi))
             /\ minlevel' = Min(minlevel, r.pi)]_vars

\* C6: insert(p) with distance(p, root) > base ** maxlevel ends in an error
\* and leaves the tree as it was
C6_FarInsertIsError ==
  [][(last'.op = "insert" /\ tree # <<>>
        /\ distance(last'.p, tree[1].data) > Pow(maxlevel))
       => /\ last'.outcome \notin {"attached", "present", "root"}
          /\ tree' = tree /\ minlevel' = minlevel]_vars

\* C7: knn_insert(p, k) of a point already in the tree returns the k nearest
\* points and adds no Node
C7_KnnInsertDuplicate ==
  [][(last'.op = "knn_insert" /\ PresentIn(tree, last'.p))
       => /\ last'.outcome = "returned"
          /\ tree' = tree
          /\ ResultDists(last'.p, last'.result)
               = BruteDists(tree, last'.p, last'.k)]_vars

\* C8: knn, knn_insert and find on an empty tree end in EmptyTreeError and
\* leave the tree empty
C8_EmptyTreeError ==
  (last.op \in Queries /\ last.wasEmpty)
    => (last.outcome = "EmptyTreeError" /\ tree = <<>>)

C10_LevelsDecrease ==
  \A n \in 2 .. Len(tree) :
    IF tree[n].parent = 1 THEN tree[n].level <= maxlevel
    ELSE tree[n].level < tree[tree[n].parent].level
====
